---- MODULE Spec2Model ----
(***************************************************************************)
(* Model of the axum-open-api-codegen compiler: the schema compiler        *)
(* (compilation/schema.rs), the route compiler (compilation/mod.rs) and    *)
(* the parts of the declaration tree and compiled tree they read and       *)
(* write.                                                                  *)
(*                                                                         *)
(* Strings are sequences of one-character strings, so that splitting,      *)
(* case conversion and path formatting are computed and not assumed.       *)
(* An Option<T> is a sequence of length at most one.                       *)
(***************************************************************************)
EXTENDS Integers, Sequences, FiniteSets, TLC

VARIABLES
    spec,       \* Compiler.spec: the OpenAPI document; in SpecExtract the let
                \* statements of the emitted from_request
    parser,     \* the declaration tree handed to Compiler::compile; in SpecParse
                \* the MethodItem parsed
    pc,         \* position of the running call
    items,      \* items of Compiler::compile: the compiled root items so far; in
                \* SpecExtract the identifiers bound so far
    next_item,  \* index of the next declared item of the for item in parser.items
                \* loop; in SpecExtract of the next let statement
    call,       \* the arguments of the function under examination
    ret         \* the value the function returned (or the panic it ended with)

vars == <<spec, parser, pc, items, next_item, call, ret>>

(***************************************************************************)
(* Characters and strings                                                  *)
(***************************************************************************)
LowerChars == <<"a","b","c","d","e","f","g","h","i","j","k","l","m",
                "n","o","p","q","r","s","t","u","v","w","x","y","z">>
UpperChars == <<"A","B","C","D","E","F","G","H","I","J","K","L","M",
                "N","O","P","Q","R","S","T","U","V","W","X","Y","Z">>
DigitChars == {"0","1","2","3","4","5","6","7","8","9"}

Range(s) == {s[i] : i \in DOMAIN s}

IsLower(c) == c \in Range(LowerChars)
IsUpper(c) == c \in Range(UpperChars)
IsDigit(c) == c \in DigitChars

ToUpper(c) ==
    IF IsLower(c) THEN UpperChars[CHOOSE i \in DOMAIN LowerChars : LowerChars[i] = c] ELSE c
ToLower(c) ==
    IF IsUpper(c) THEN LowerChars[CHOOSE i \in DOMAIN UpperChars : UpperChars[i] = c] ELSE c

Last(s) == s[Len(s)]

RECURSIVE Concat(_)
Concat(ss) == IF ss = <<>> THEN <<>> ELSE Head(ss) \o Concat(Tail(ss))

\* str.split(sep): the pieces of s between occurrences of the one-character separator
RECURSIVE SplitOn(_, _, _, _)
SplitOn(s, sep, cur, acc) ==
    IF s = <<>> THEN Append(acc, cur)
    ELSE IF Head(s) = sep THEN SplitOn(Tail(s), sep, <<>>, Append(acc, cur))
    ELSE SplitOn(Tail(s), sep, Append(cur, Head(s)), acc)

Split(s, sep) == SplitOn(s, sep, <<>>, <<>>)

\* str.split("::"): the pieces of s between occurrences of two colons
RECURSIVE SplitOnColons(_, _, _)
SplitOnColons(s, cur, acc) ==
    IF s = <<>> THEN Append(acc, cur)
    ELSE IF Len(s) >= 2 /\ s[1] = ":" /\ s[2] = ":"
         THEN SplitOnColons(SubSeq(s, 3, Len(s)), <<>>, Append(acc, cur))
    ELSE SplitOnColons(Tail(s), Append(cur, Head(s)), acc)

(***************************************************************************)
(* convert_case: to_case(Case::UpperCamel)                                 *)
(***************************************************************************)
Delims == {"_", "-", " "}

\* a word boundary between s[i] and s[i+1] (lower-upper, letter-digit, acronym)
BoundaryAfter(s, i) ==
    LET a == s[i]
        b == s[i + 1]
    IN  \/ IsLower(a) /\ IsUpper(b)
        \/ IsDigit(a) /\ (IsLower(b) \/ IsUpper(b))
        \/ (IsLower(a) \/ IsUpper(a)) /\ IsDigit(b)
        \/ IsUpper(a) /\ IsUpper(b) /\ i + 2 <= Len(s) /\ IsLower(s[i + 2])

RECURSIVE SplitWords(_, _, _, _)
SplitWords(s, i, cur, words) ==
    IF i > Len(s) THEN (IF cur = <<>> THEN words ELSE Append(words, cur))
    ELSE IF s[i] \in Delims
         THEN SplitWords(s, i + 1, <<>>, IF cur = <<>> THEN words ELSE Append(words, cur))
    ELSE IF i < Len(s) /\ BoundaryAfter(s, i)
         THEN SplitWords(s, i + 1, <<>>, Append(words, Append(cur, s[i])))
    ELSE SplitWords(s, i + 1, Append(cur, s[i]), words)

Capitalize(w) == [i \in DOMAIN w |-> IF i = 1 THEN ToUpper(w[i]) ELSE ToLower(w[i])]

to_case_UpperCamel(s) ==
    LET words == SplitWords(s, 1, <<>>, <<>>)
    IN  Concat([i \in DOMAIN words |-> Capitalize(words[i])])

(***************************************************************************)
(* proc_macro2::Ident and token streams                                    *)
(***************************************************************************)
IsIdentStart(c) == IsLower(c) \/ IsUpper(c) \/ c = "_"
IsIdentContinue(c) == IsIdentStart(c) \/ IsDigit(c)

\* Ident::new(s, span) panics unless s is a valid identifier
ValidIdent(s) ==
    /\ s # <<>>
    /\ IsIdentStart(s[1])
    /\ \A i \in DOMAIN s : IsIdentContinue(s[i])

\* TokenStream::to_string(): the tokens separated by one space
RECURSIVE TokensToString(_)
TokensToString(toks) ==
    IF toks = <<>> THEN <<>>
    ELSE IF Len(toks) = 1 THEN toks[1]
    ELSE toks[1] \o <<" ">> \o TokensToString(Tail(toks))

(***************************************************************************)
(* syn::Type as its token sequence, syn::Item as a record                  *)
(***************************************************************************)
ColonColon == <<":", ":">>
Lt == <<"<">>
Gt == <<">">>
IdString == <<"S","t","r","i","n","g">>
Idf64 == <<"f","6","4">>
Idi64 == <<"i","6","4">>
Idbool == <<"b","o","o","l">>
IdVec == <<"V","e","c">>
IdOption == <<"O","p","t","i","o","n">>
IdSuper == <<"s","u","p","e","r">>
IdSchemas == <<"s","c","h","e","m","a","s">>

TyIdent(ident) == <<ident>>
TyVec(ty) == <<IdVec, Lt>> \o ty \o <<Gt>>
TyOption(ty) == <<IdOption, Lt>> \o ty \o <<Gt>>

StructItem(ident, fields) ==
    [kind |-> "struct", ident |-> ident, members |-> fields, ty |-> <<>>]
EnumItem(ident, variants) ==
    [kind |-> "enum", ident |-> ident, members |-> variants, ty |-> <<>>]
TypeItem(ident, ty) ==
    [kind |-> "type", ident |-> ident, members |-> <<>>, ty |-> ty]

(***************************************************************************)
(* syn::Result<T>, extended with the panic a call can end with; items is *)
(* the state of the &mut Vec<Item> sink when the call ended.             *)
(***************************************************************************)
CallSite == <<>>
NoErr == [span |-> CallSite, msg |-> ""]
Ok(val, sink) == [kind |-> "ok", val |-> val, err |-> NoErr, items |-> sink]
Err(span, msg, sink) ==
    [kind |-> "err", val |-> <<>>, err |-> [span |-> span, msg |-> msg], items |-> sink]
Panic(sink) == [kind |-> "panic", val |-> <<>>, err |-> NoErr, items |-> sink]
\* no call has returned yet
Idle == [kind |-> "none", val |-> <<>>, err |-> NoErr, items |-> <<>>]

\* err_call_site!(msg)
err_call_site(msg, sink) == Err(CallSite, msg, sink)

\* the ? operator: a call that did not end with Ok ends the caller the same
\* way, else the caller goes on with what the call returned
AndThen(r, rest(_)) == IF r.kind # "ok" THEN r ELSE rest(r)

(***************************************************************************)
(* oas3 schema nodes: ObjectOrReference<Schema> is either [ref_path] or a  *)
(* Schema record.                                                          *)
(***************************************************************************)
IsRef(node) == "ref_path" \in DOMAIN node

\* the title of the schema taking precedence over the supplied one
try_merge_titles_own_first(title, schema) ==
    LET t == IF schema.title # <<>> THEN schema.title ELSE title
    IN  IF t = <<>> THEN err_call_site("Anonymous schemas are not supported", <<>>)
        ELSE IF ~ValidIdent(t[1]) THEN Panic(<<>>)
        ELSE Ok(t[1], <<>>)

\* try_merge_titles: the supplied title, else the one of the schema, as an Ident
try_merge_titles(title, schema) ==
    LET t == IF title # <<>> THEN title ELSE schema.title
    IN  IF t = <<>> THEN err_call_site("Anonymous schemas are not supported", <<>>)
        ELSE IF ~ValidIdent(t[1]) THEN Panic(<<>>)
        ELSE Ok(t[1], <<>>)

RepeatSuper(depth) ==
    Concat([i \in 1..depth |-> <<IdSuper, ColonColon>>])

\* compile_schema_ref with one parent hop whatever the depth is
compile_schema_ref_one_hop(ref_path, depth, sink) ==
    LET ref_name == Last(Split(ref_path, "/"))
    IN  IF ~ValidIdent(ref_name) THEN Panic(sink)
        ELSE Ok(RepeatSuper(1) \o <<IdSchemas, ColonColon, ref_name>>, sink)

\* compile_schema_ref: depth times super::, then schemas::<last piece of the path>
compile_schema_ref(ref_path, depth, sink) ==
    LET ref_name == Last(Split(ref_path, "/"))
    IN  IF ~ValidIdent(ref_name) THEN Panic(sink)
        ELSE Ok(RepeatSuper(depth) \o <<IdSchemas, ColonColon, ref_name>>, sink)

\* compile_base_type: an alias when a title is available, else the bare type
compile_base_type(ty, title, schema, sink) ==
    LET m == try_merge_titles(title, schema)
    IN  CASE m.kind = "ok" -> Ok(TyIdent(m.val), Append(sink, TypeItem(m.val, ty)))
          [] m.kind = "err" -> Ok(ty, sink)
          [] OTHER -> Panic(sink)

\* the variant name taken from the first path segment of the type
variant_name_first_segment(variant_ty) ==
    to_case_UpperCamel(Head(SplitOnColons(TokensToString(variant_ty), <<>>, <<>>)))

\* the variant name compile_one_of derives from the type of a variant
variant_name(variant_ty) ==
    to_case_UpperCamel(Last(SplitOnColons(TokensToString(variant_ty), <<>>, <<>>)))

RECURSIVE compile_schema(_, _, _, _)
RECURSIVE compile_fields(_, _, _, _, _)
RECURSIVE compile_variants(_, _, _, _)

\* the loop of compile_object with every field left unwrapped
RECURSIVE compile_fields_all_required(_, _, _, _, _)
compile_fields_all_required(props, required, depth, sink, fields) ==
    IF props = <<>> THEN Ok(fields, sink)
    ELSE LET prop_name == Head(props)[1]
             prop_schema == Head(props)[2]
         IN  IF ~ValidIdent(prop_name) THEN Panic(sink)
             ELSE AndThen(compile_schema(prop_schema, <<>>, depth, sink), LAMBDA r :
                      compile_fields_all_required(Tail(props), required, depth, r.items,
                          Append(fields, [name |-> prop_name, ty |-> r.val])))

\* the loop of compile_object over schema.properties
compile_fields(props, required, depth, sink, fields) ==
    IF props = <<>> THEN Ok(fields, sink)
    ELSE LET prop_name == Head(props)[1]
             prop_schema == Head(props)[2]
         IN  IF ~ValidIdent(prop_name) THEN Panic(sink)
             ELSE AndThen(compile_schema(prop_schema, <<>>, depth, sink), LAMBDA r :
                      compile_fields(Tail(props), required, depth, r.items,
                          Append(fields,
                              [name |-> prop_name,
                               ty |-> IF prop_name \in required
                                      THEN r.val ELSE TyOption(r.val)])))

compile_object(schema, title, depth, sink) ==
    LET m == try_merge_titles(title, schema)
    IN  IF m.kind # "ok" THEN [m EXCEPT !.items = sink]
        ELSE AndThen(compile_fields(schema.properties, schema.required, depth, sink, <<>>),
                 LAMBDA r : Ok(TyIdent(m.val), Append(r.items, StructItem(m.val, r.val))))

\* the loop of compile_one_of over schema.one_of
compile_variants(alts, depth, sink, variants) ==
    IF alts = <<>> THEN Ok(variants, sink)
    ELSE AndThen(compile_schema(Head(alts), <<>>, depth, sink), LAMBDA r :
             LET variant_ident == variant_name(r.val)
             IN  IF ~ValidIdent(variant_ident) THEN Panic(r.items)
                 ELSE compile_variants(Tail(alts), depth, r.items,
                          Append(variants, [name |-> variant_ident, ty |-> r.val])))

compile_one_of(schema, title, depth, sink) ==
    LET m == try_merge_titles(title, schema)
    IN  IF m.kind # "ok" THEN [m EXCEPT !.items = sink]
        ELSE AndThen(compile_variants(schema.one_of, depth, sink, <<>>),
                 LAMBDA r : Ok(TyIdent(m.val), Append(r.items, EnumItem(m.val, r.val))))

compile_array(schema, title, depth, sink) ==
    LET m == try_merge_titles(title, schema)
    IN  IF m.kind = "panic" THEN Panic(sink)
        ELSE IF schema.items = <<>>
             THEN err_call_site("Array must contain items field", sink)
        ELSE AndThen(compile_schema(schema.items[1], <<>>, depth, sink), LAMBDA r :
                 IF m.kind = "ok"
                 THEN Ok(TyIdent(m.val), Append(r.items, TypeItem(m.val, TyVec(r.val))))
                 ELSE Ok(TyVec(r.val), r.items))

\* compile_schema: the type of a schema node; new declarations go to the sink
compile_schema(schema_ref, title, depth, sink) ==
    IF IsRef(schema_ref) THEN compile_schema_ref(schema_ref.ref_path, depth, sink)
    ELSE LET schema == schema_ref
         IN  IF schema.all_of # <<>> \/ schema.any_of # <<>>
             THEN err_call_site("allOf and anyOf are not (yet) supported", sink)
             ELSE IF schema.one_of # <<>> THEN compile_one_of(schema, title, depth, sink)
             ELSE IF schema.schema_type = <<>>
                  THEN err_call_site("schema is missing schema_type and one_of", sink)
             ELSE CASE schema.schema_type[1] = "object" ->
                           compile_object(schema, title, depth, sink)
                    [] schema.schema_type[1] = "array" ->
                           compile_array(schema, title, depth, sink)
                    [] schema.schema_type[1] = "string" ->
                           compile_base_type(TyIdent(IdString), title, schema, sink)
                    [] schema.schema_type[1] = "number" ->
                           compile_base_type(TyIdent(Idf64), title, schema, sink)
                    [] schema.schema_type[1] = "integer" ->
                           compile_base_type(TyIdent(Idi64), title, schema, sink)
                    [] schema.schema_type[1] = "boolean" ->
                           compile_base_type(TyIdent(Idbool), title, schema, sink)

\* compile_param: the schema of the parameter compiled, optional unless required
compile_param(param, depth, sink) ==
    IF param.schema = <<>>
    THEN err_call_site("Query parameter does not have a schema in OpenAPI spec", sink)
    ELSE AndThen(compile_schema(param.schema[1], <<>>, depth, sink), LAMBDA r :
             IF param.required = <<TRUE>> THEN r ELSE Ok(TyOption(r.val), r.items))

(***************************************************************************)
(* parsing: MethodType and MethodPath                                      *)
(***************************************************************************)
TokGET == <<"G","E","T">>
TokPOST == <<"P","O","S","T">>
TokPUT == <<"P","U","T">>
TokDELETE == <<"D","E","L","E","T","E">>
TokPATCH == <<"P","A","T","C","H">>

\* the variants of parsing::MethodType
MethodType == {"Get", "Post", "Put", "Delete", "Patch", "Head", "Options", "Trace"}

\* the span of an identifier token
SpanOf(ident) == <<ident>>

\* a parser that accepts every keyword of mod kw that names a verb
MethodType_parse_every_keyword(ident) ==
    CASE ident = TokGET -> Ok("Get", <<>>)
      [] ident = TokPOST -> Ok("Post", <<>>)
      [] ident = TokPUT -> Ok("Put", <<>>)
      [] ident = TokDELETE -> Ok("Delete", <<>>)
      [] ident = TokPATCH -> Ok("Patch", <<>>)
      [] ident = <<"H","E","A","D">> -> Ok("Head", <<>>)
      [] ident = <<"O","P","T","I","O","N","S">> -> Ok("Options", <<>>)
      [] ident = <<"T","R","A","C","E">> -> Ok("Trace", <<>>)
      [] OTHER -> Err(SpanOf(ident), "Invalid method", <<>>)

\* impl Parse for MethodType
MethodType_parse(ident) ==
    CASE ident = TokGET -> Ok("Get", <<>>)
      [] ident = TokPOST -> Ok("Post", <<>>)
      [] ident = TokPUT -> Ok("Put", <<>>)
      [] ident = TokDELETE -> Ok("Delete", <<>>)
      [] ident = TokPATCH -> Ok("Patch", <<>>)
      [] OTHER -> Err(SpanOf(ident), "Invalid method", <<>>)

\* the axum path without the colon that marks a parameter segment
to_axum_path_unmarked(path) ==
    Concat([i \in DOMAIN path |-> <<"/">> \o path[i][1]])

\* MethodPath::to_axum_path
to_axum_path(path) ==
    Concat([i \in DOMAIN path |->
        IF path[i][2] THEN <<"/", ":">> \o path[i][1] ELSE <<"/">> \o path[i][1]])

\* MethodPath::to_oapi_path
to_oapi_path(path) ==
    Concat([i \in DOMAIN path |->
        IF path[i][2] THEN <<"/", "{">> \o path[i][1] \o <<"}">> ELSE <<"/">> \o path[i][1]])

\* MethodPath::path_param_idents
RECURSIVE path_param_idents(_)
path_param_idents(path) ==
    IF path = <<>> THEN <<>>
    ELSE (IF Head(path)[2] THEN <<Head(path)[1]>> ELSE <<>>) \o path_param_idents(Tail(path))

\* err!(&method.path, msg): MethodPath::span() unwraps the first segment
err_at_path(path, msg, sink) ==
    IF path = <<>> THEN Panic(sink) ELSE Err(SpanOf(path[1][1]), msg, sink)

(***************************************************************************)
(* oas3: resolving ObjectOrReference<Parameter> and <RequestBody>          *)
(***************************************************************************)
\* ObjectOrReference::resolve for an operation parameter
resolve_parameter(p, doc) ==
    IF ~IsRef(p) THEN Ok(p, <<>>)
    ELSE LET name == Last(Split(p.ref_path, "/"))
         IN  IF doc.components # <<>> /\ name \in DOMAIN doc.components[1].parameters
             THEN Ok(doc.components[1].parameters[name], <<>>)
             ELSE Err(CallSite, "Unresolvable", <<>>)

\* ObjectOrReference::resolve for a request body
resolve_request_body(b, doc) ==
    IF ~IsRef(b) THEN Ok(b, <<>>)
    ELSE LET name == Last(Split(b.ref_path, "/"))
         IN  IF doc.components # <<>> /\ name \in DOMAIN doc.components[1].request_bodies
             THEN Ok(doc.components[1].request_bodies[name], <<>>)
             ELSE Err(CallSite, "Unresolvable", <<>>)

(***************************************************************************)
(* Compiler::compile_method                                                *)
(***************************************************************************)
\* the operation a PathItem holds for a verb
select_operation(path_item, method_ty) ==
    CASE method_ty = "Get" -> path_item.get
      [] method_ty = "Post" -> path_item.post
      [] method_ty = "Put" -> path_item.put
      [] method_ty = "Delete" -> path_item.delete
      [] method_ty = "Patch" -> path_item.patch
      [] method_ty = "Head" -> path_item.head
      [] method_ty = "Trace" -> path_item.trace
      [] method_ty = "Options" -> path_item.options

\* parameters.iter().map(resolve.unwrap()).find(name): resolves lazily, in order
RECURSIVE find_parameter(_, _, _)
find_parameter(parameters, param_ident, doc) ==
    IF parameters = <<>> THEN Err(SpanOf(param_ident), "Path parameter not found in OpenAPI spec", <<>>)
    ELSE LET r == resolve_parameter(Head(parameters), doc)
         IN  IF r.kind # "ok" THEN Panic(<<>>)
             ELSE IF param_ident = r.val.name THEN Ok(r.val, <<>>)
             ELSE find_parameter(Tail(parameters), param_ident, doc)

\* the loop over the declared path parameters without the check of the location
RECURSIVE compile_path_params_any_location(_, _, _, _, _, _)
compile_path_params_any_location(idents, operation, doc, depth, sink, types) ==
    IF idents = <<>> THEN Ok(types, sink)
    ELSE LET param_ident == Head(idents)
             f == find_parameter(operation.parameters, param_ident, doc)
         IN  IF f.kind # "ok" THEN [f EXCEPT !.items = sink]
             ELSE AndThen(compile_param(f.val, depth, sink), LAMBDA r :
                      compile_path_params_any_location(Tail(idents), operation, doc, depth,
                          r.items, Append(types, r.val)))

\* the loop over the declared path parameters
RECURSIVE compile_path_params(_, _, _, _, _, _)
compile_path_params(idents, operation, doc, depth, sink, types) ==
    IF idents = <<>> THEN Ok(types, sink)
    ELSE LET param_ident == Head(idents)
             f == find_parameter(operation.parameters, param_ident, doc)
         IN  IF f.kind # "ok" THEN [f EXCEPT !.items = sink]
             ELSE IF f.val.location # "path"
                  THEN Err(SpanOf(param_ident),
                           "Path parameter is not in: path in OpenAPI spec", sink)
             ELSE AndThen(compile_param(f.val, depth, sink), LAMBDA r :
                      compile_path_params(Tail(idents), operation, doc, depth,
                          r.items, Append(types, r.val)))

\* the loop over the query parameters of the operation
RECURSIVE compile_query_params(_, _, _, _, _, _)
compile_query_params(parameters, doc, depth, sink, names, types) ==
    IF parameters = <<>> THEN Ok([names |-> names, types |-> types], sink)
    ELSE LET p == resolve_parameter(Head(parameters), doc)
         IN  IF p.kind # "ok" THEN Panic(sink)
             ELSE IF p.val.location # "query"
                  THEN compile_query_params(Tail(parameters), doc, depth, sink, names, types)
             ELSE IF ~ValidIdent(p.val.name) THEN Panic(sink)
             ELSE AndThen(compile_param(p.val, depth, sink), LAMBDA r :
                      compile_query_params(Tail(parameters), doc, depth, r.items,
                          Append(names, p.val.name), Append(types, r.val)))

IdAxum == <<"a","x","u","m">>
IdExtract == <<"e","x","t","r","a","c","t">>
IdMultipart == <<"M","u","l","t","i","p","a","r","t">>
IdText == <<"T","e","x","t">>
IdBytes == <<"B","y","t","e","s">>
AxumExtract(ident) == <<ColonColon, IdAxum, ColonColon, IdExtract, ColonColon, ident>>

MtApplication == <<"a","p","p","l","i","c","a","t","i","o","n">>
MtJson == <<"j","s","o","n">>
MtForm == <<"x","-","w","w","w","-","f","o","r","m","-","u","r","l","e","n","c","o","d","e","d">>
MtMultipart == <<"m","u","l","t","i","p","a","r","t">>
MtFormData == <<"f","o","r","m","-","d","a","t","a">>
MtText == <<"t","e","x","t">>

Extractor(extractor_ty, rejection_var, body_ty) ==
    [body_ident |-> "body", extractor_ty |-> extractor_ty,
     rejection_var |-> rejection_var, body_ty |-> body_ty]

\* the match on the two ends of the media type name
compile_extractor(media_type_name, media_schema, depth, sink) ==
    LET pieces == Split(media_type_name, "/")
        first == Head(pieces)
        last == Last(pieces)
    IN  IF first = MtApplication /\ last = MtJson
        THEN AndThen(compile_schema(media_schema, <<>>, depth, sink), LAMBDA r :
                 Ok(Extractor("::axum::extract::Json", "Json", r.val), r.items))
        ELSE IF first = MtApplication /\ last = MtForm
        THEN AndThen(compile_schema(media_schema, <<>>, depth, sink), LAMBDA r :
                 Ok(Extractor("::axum::extract::Form", "Form", r.val), r.items))
        ELSE IF first = MtMultipart /\ last = MtFormData
        THEN Ok(Extractor("::axum::extract::Multipart", "Multipart",
                          AxumExtract(IdMultipart)), sink)
        ELSE IF first = MtText
        THEN Ok(Extractor("::axum::extract::Text", "Text", AxumExtract(IdText)), sink)
        ELSE Ok(Extractor("::axum::extract::Bytes", "Bytes", AxumExtract(IdBytes)), sink)

\* the body extractor when only an empty content mapping is rejected
compile_request_body_first_entry(operation, doc, depth, sink) ==
    IF operation.request_body = <<>> THEN Ok(<<>>, sink)
    ELSE LET b == resolve_request_body(operation.request_body[1], doc)
         IN  IF b.kind # "ok" THEN Panic(sink)
             ELSE LET content == b.val.content
                  IN  IF DOMAIN content = {}
                      THEN err_call_site("Exactly one media type is supported", sink)
                      ELSE LET media_type_name == CHOOSE k \in DOMAIN content : TRUE
                               media_type == content[media_type_name]
                           IN  IF media_type.schema = <<>>
                               THEN err_call_site("Schema not found in media type", sink)
                               ELSE AndThen(compile_extractor(media_type_name,
                                                media_type.schema[1], depth, sink),
                                        LAMBDA e : Ok(<<e.val>>, e.items))

\* the body extractor of an operation, if it has a request body
compile_request_body(operation, doc, depth, sink) ==
    IF operation.request_body = <<>> THEN Ok(<<>>, sink)
    ELSE LET b == resolve_request_body(operation.request_body[1], doc)
         IN  IF b.kind # "ok" THEN Panic(sink)
             ELSE LET content == b.val.content
                  IN  IF Cardinality(DOMAIN content) # 1
                      THEN err_call_site("Exactly one media type is supported", sink)
                      ELSE LET media_type_name == CHOOSE k \in DOMAIN content : TRUE
                               media_type == content[media_type_name]
                           IN  IF media_type.schema = <<>>
                               THEN err_call_site("Schema not found in media type", sink)
                               ELSE AndThen(compile_extractor(media_type_name,
                                                media_type.schema[1], depth, sink),
                                        LAMBDA e : Ok(<<e.val>>, e.items))

\* the steps after the operation is selected with the request body first
compile_operation_body_first(method, operation, doc, depth, sink) ==
    AndThen(compile_request_body(operation, doc, depth, sink), LAMBDA ex :
    AndThen(compile_path_params(path_param_idents(method.path), operation, doc,
                                depth, ex.items, <<>>), LAMBDA pp :
    AndThen(compile_query_params(operation.parameters, doc, depth,
                                 pp.items, <<>>, <<>>), LAMBDA qp :
        Ok([method_ty |-> method.method_ty,
            axum_path |-> to_axum_path(method.path),
            oapi_path |-> to_oapi_path(method.path),
            struct_name |-> method.struct_name,
            struct_vis |-> method.struct_vis,
            path_param_names |-> path_param_idents(method.path),
            path_param_types |-> pp.val,
            query_param_names |-> qp.val.names,
            query_param_types |-> qp.val.types,
            extractor |-> ex.val,
            summary |-> <<>>,
            description |-> <<>>], qp.items))))

\* the part of compile_method after the operation is selected
compile_operation(method, operation, doc, depth, sink) ==
    AndThen(compile_path_params(path_param_idents(method.path), operation, doc,
                                depth, sink, <<>>), LAMBDA pp :
    AndThen(compile_query_params(operation.parameters, doc, depth,
                                 pp.items, <<>>, <<>>), LAMBDA qp :
    AndThen(compile_request_body(operation, doc, depth, qp.items), LAMBDA ex :
        Ok([method_ty |-> method.method_ty,
            axum_path |-> to_axum_path(method.path),
            oapi_path |-> to_oapi_path(method.path),
            struct_name |-> method.struct_name,
            struct_vis |-> method.struct_vis,
            path_param_names |-> path_param_idents(method.path),
            path_param_types |-> pp.val,
            query_param_names |-> qp.val.names,
            query_param_types |-> qp.val.types,
            extractor |-> ex.val,
            summary |-> <<>>,
            description |-> <<>>], ex.items))))

compile_method(method, doc, depth, sink) ==
    LET key == to_oapi_path(method.path)
    IN  IF key \notin DOMAIN doc.paths
        THEN err_at_path(method.path, "Path not found in OpenAPI spec", sink)
        ELSE LET operation == select_operation(doc.paths[key], method.method_ty)
             IN  IF operation = <<>>
                 THEN err_at_path(method.path, "Method not found in OpenAPI spec", sink)
                 ELSE compile_operation(method, operation[1], doc, depth, sink)

(***************************************************************************)
(* Compiler::compile_item, compile_module, compile_schemas_from_spec       *)
(***************************************************************************)
\* the variants of parsing::Item and codegen::Item
ItemMethod(method) == [tag |-> "Method", item |-> method]
ItemModule(module) == [tag |-> "Module", item |-> module]
ItemSchema(schema) == [tag |-> "Schema", item |-> schema]

ModuleItem(vis, name, body) == [vis |-> vis, name |-> name, items |-> body]

SchemaItems(sink) == [i \in DOMAIN sink |-> ItemSchema(sink[i])]

RECURSIVE compile_item(_, _, _, _)
RECURSIVE compile_module_items(_, _, _, _, _)

\* the first loop of compile_module: each child compiled at depth + 1
compile_module_items(decls, doc, depth, sink, acc) ==
    IF decls = <<>> THEN Ok(acc, sink)
    ELSE AndThen(compile_item(Head(decls), doc, sink, depth + 1), LAMBDA r :
             compile_module_items(Tail(decls), doc, depth, r.items, Append(acc, r.val)))

\* compile_module with the schema declarations put before the children
compile_module_schemas_first(module, doc, depth) ==
    AndThen(compile_module_items(module.items, doc, depth, <<>>, <<>>), LAMBDA r :
        Ok(ModuleItem(module.vis, module.name, SchemaItems(r.items) \o r.val), <<>>))

compile_module(module, doc, depth) ==
    AndThen(compile_module_items(module.items, doc, depth, <<>>, <<>>), LAMBDA r :
        Ok(ModuleItem(module.vis, module.name, r.val \o SchemaItems(r.items)), <<>>))

compile_item(item, doc, sink, depth) ==
    IF item.tag = "Method"
    THEN AndThen(compile_method(item.item, doc, depth, sink),
             LAMBDA r : Ok(ItemMethod(r.val), r.items))
    ELSE AndThen([compile_module(item.item, doc, depth) EXCEPT !.items = sink],
             LAMBDA r : Ok(ItemModule(r.val), sink))

\* the loop of compile_schemas_from_spec over components.schemas, at depth 1
RECURSIVE compile_components(_, _)
compile_components(schemas, sink) ==
    IF schemas = <<>> THEN Ok(<<>>, sink)
    ELSE AndThen(compile_schema(Head(schemas)[2], <<Head(schemas)[1]>>, 1, sink),
             LAMBDA r : compile_components(Tail(schemas), r.items))

compile_schemas_from_spec(doc) ==
    IF doc.components = <<>> THEN Panic(<<>>)
    ELSE AndThen(compile_components(doc.components[1].schemas, <<>>),
             LAMBDA r : Ok(ModuleItem("pub", IdSchemas, SchemaItems(r.items)), <<>>))

(***************************************************************************)
(* Bounds and the inputs drawn from them                                   *)
(***************************************************************************)
MaxProps == 2   \* properties of an object schema
MaxAlts == 2    \* alternatives of a oneOf schema
MaxDepth == 2   \* module nesting depth

\* titles, component names and property names
NameNum == <<"N","u","m">>
NameMyT == <<"m","y","_","t">>
NameObj == <<"O","b","j">>
NamePet == <<"P","e","t">>
NameId == <<"i","d">>
NameName == <<"n","a","m","e">>
NameTag == <<"t","a","g">>
NameZip == <<"z","i","p">>

\* property names in the key order of the BTreeMap that holds them
PropNames == <<NameId, NameName, NameTag, NameZip>>

RefPrefix == <<"#","/","c","o","m","p","o","n","e","n","t","s","/","s","c","h","e","m","a","s","/">>
Ref(name) == [ref_path |-> RefPrefix \o name]

Schema(title, schema_type, properties, required, item, one_of) ==
    [title |-> title, schema_type |-> schema_type, properties |-> properties,
     required |-> required, items |-> item, one_of |-> one_of,
     all_of |-> <<>>, any_of |-> <<>>]

Prim(title, ty) == Schema(title, <<ty>>, <<>>, {}, <<>>, <<>>)

LeafSchemas ==
    { Ref(NamePet),
      Prim(<<>>, "string"),
      Prim(<<NameNum>>, "number"),
      Prim(<<NameMyT>>, "boolean"),
      Prim(<<>>, "integer"),
      Schema(<<NameNum>>, <<"object">>, <<>>, {}, <<>>, <<>>),
      Schema(<<>>, <<"object">>, <<>>, {}, <<>>, <<>>),
      Schema(<<NameNum>>, <<>>, <<>>, {}, <<>>, <<>>),
      [Prim(<<NameNum>>, "string") EXCEPT !.all_of = <<Prim(<<>>, "string")>>] }

\* the schemas the properties of the widest objects are drawn from
PropLeaves ==
    { Ref(NamePet),
      Prim(<<>>, "string"),
      Prim(<<NameNum>>, "number"),
      Schema(<<NameNum>>, <<"object">>, <<>>, {}, <<>>, <<>>),
      Schema(<<NameNum>>, <<>>, <<>>, {}, <<>>, <<>>) }

\* property maps of at most n properties with schemas drawn from nodes
PropertyMaps(n, nodes) ==
    UNION { { [i \in 1..k |-> <<PropNames[idx[i]], ch[i]>>] :
                idx \in { s \in [1..k -> 1..Len(PropNames)] :
                            \A i \in 1..(k - 1) : s[i] < s[i + 1] },
                ch \in [1..k -> nodes] } : k \in 0..n }

RequiredSets == { {}, {NameId}, {NameId, NameName}, {NameZip} }
TitleOptions == { <<>>, <<NameObj>> }

Objects(n, nodes) ==
    { Schema(t, <<"object">>, ps, rq, <<>>, <<>>) :
        t \in TitleOptions, ps \in PropertyMaps(n, nodes), rq \in RequiredSets }

Arrays(nodes) ==
    { Schema(t, <<"array">>, <<>>, {}, it, <<>>) :
        t \in TitleOptions, it \in {<<>>} \cup {<<n>> : n \in nodes} }

OneOfs(n, nodes) ==
    UNION { { Schema(t, <<>>, <<>>, {}, <<>>, alts) :
                t \in TitleOptions, alts \in [1..k -> nodes] } : k \in 1..n }

\* composites of one child, the children of the second level
NarrowSchemas == Objects(1, LeafSchemas) \cup Arrays(LeafSchemas) \cup OneOfs(1, LeafSchemas)

\* a composite around one composite child
Level2Schemas(t, n) ==
    { Schema(t, <<"object">>, << <<NameId, n>> >>, {}, <<>>, <<>>),
      Schema(t, <<"array">>, <<>>, {}, <<n>>, <<>>),
      Schema(t, <<>>, <<>>, {}, <<>>, <<n>>) }

SuppliedTitles == { <<>>, <<NamePet>> }

(***************************************************************************)
(* Documents and declared methods                                          *)
(***************************************************************************)
MaxSegs == 2     \* segments of a declared path
MaxParams == 2   \* parameters of an operation
MaxContent == 2  \* media types of a request body

Parameter(name, location, required, schema) ==
    [name |-> name, location |-> location, required |-> required, schema |-> schema]

ParamId == Parameter(NameId, "path", <<TRUE>>, <<Prim(<<>>, "integer")>>)
ParamIdQuery == Parameter(NameId, "query", <<>>, <<Prim(<<>>, "string")>>)
ParamTag == Parameter(NameTag, "path", <<FALSE>>, <<Prim(<<NameNum>>, "number")>>)
ParamTagQuery ==
    Parameter(NameTag, "query", <<TRUE>>,
              <<Schema(<<NameObj>>, <<"object">>, << <<NameId, Ref(NamePet)>> >>, {}, <<>>, <<>>)>>)
ParamNoSchema == Parameter(NameName, "query", <<>>, <<>>)
ParamRefId == [ref_path |-> <<"#","/","c","o","m","p","o","n","e","n","t","s","/","p","a","r","a","m","e","t","e","r","s","/">> \o NameId]
ParamRefZip == [ref_path |-> <<"#","/","c","o","m","p","o","n","e","n","t","s","/","p","a","r","a","m","e","t","e","r","s","/">> \o NameZip]

ParamPool ==
    {ParamId, ParamIdQuery, ParamTag, ParamTagQuery, ParamNoSchema, ParamRefId, ParamRefZip}

MediaTypeNames ==
    { <<"a","p","p","l","i","c","a","t","i","o","n","/","j","s","o","n">>,
      <<"a","p","p","l","i","c","a","t","i","o","n","/","x","-","w","w","w","-","f","o","r","m","-","u","r","l","e","n","c","o","d","e","d">>,
      <<"m","u","l","t","i","p","a","r","t","/","f","o","r","m","-","d","a","t","a">>,
      <<"t","e","x","t","/","p","l","a","i","n">>,
      <<"t","e","x","t">>,
      <<"a","p","p","l","i","c","a","t","i","o","n","/","o","c","t","e","t","-","s","t","r","e","a","m">>,
      <<"a","p","p","l","i","c","a","t","i","o","n","/","j","s","o","n",";"," ","c","h","a","r","s","e","t","=","u","t","f","-","8">>,
      <<"a","p","p","l","i","c","a","t","i","o","n","/","v","n","d",".","x","+","j","s","o","n">>,
      <<"a","p","p","l","i","c","a","t","i","o","n","/","x","/","j","s","o","n">> }

MediaSchemas ==
    { <<>>,
      <<Prim(<<>>, "string")>>,
      <<Schema(<<NameObj>>, <<"object">>, << <<NameId, Prim(<<>>, "integer")>> >>, {NameId}, <<>>, <<>>)>>,
      <<Ref(NamePet)>>,
      <<Schema(<<>>, <<"object">>, <<>>, {}, <<>>, <<>>)>> }

\* request bodies: content maps of at most MaxContent media types
RequestBodies ==
    { [content |-> [k \in ks |-> [schema |-> sc]]] :
        ks \in {x \in SUBSET MediaTypeNames : Cardinality(x) <= 1}, sc \in MediaSchemas } \cup
    { [content |-> [k \in ks |-> [schema |-> sc]]] :
        ks \in {x \in SUBSET MediaTypeNames : Cardinality(x) \in 2..MaxContent},
        sc \in {<<>>, <<Prim(<<>>, "string")>>} }

NameBody == <<"b","o","d","y">>
BodyRef == [ref_path |-> <<"#","/","c","o","m","p","o","n","e","n","t","s","/","r","e","q","u","e","s","t","B","o","d","i","e","s","/">> \o NameBody]
BodyRefZip == [ref_path |-> <<"#","/","c","o","m","p","o","n","e","n","t","s","/","r","e","q","u","e","s","t","B","o","d","i","e","s","/">> \o NameZip]

Components(schemas) ==
    [schemas |-> schemas,
     parameters |-> [n \in {NameId} |-> ParamId],
     request_bodies |->
         [n \in {NameBody} |->
             [content |-> [k \in {<<"a","p","p","l","i","c","a","t","i","o","n","/","j","s","o","n">>} |->
                 [schema |-> <<Prim(<<>>, "string")>>]]]]]

Operation(parameters, request_body) ==
    [parameters |-> parameters, request_body |-> request_body]

PathItem(get, delete) ==
    [get |-> get, post |-> <<>>, put |-> <<>>, delete |-> delete, patch |-> <<>>,
     head |-> <<>>, trace |-> <<>>, options |-> <<>>]

Doc(keys, operation, components) ==
    [paths |-> [k \in keys |-> PathItem(<<operation>>, <<Operation(<<>>, <<>>)>>)],
     components |-> components]

KeyEmpty == <<>>
KeyPets == <<"/","p","e","t","s">>
KeyPetsId == <<"/","p","e","t","s","/","{","i","d","}">>
KeyPetsTag == <<"/","p","e","t","s","/","{","t","a","g","}">>
KeyId == <<"/","{","i","d","}">>
KeyIdTag == <<"/","{","i","d","}","/","{","t","a","g","}">>
KeyTagId == <<"/","{","t","a","g","}","/","{","i","d","}">>
AllKeys == {KeyEmpty, KeyPets, KeyPetsId, KeyPetsTag, KeyId, KeyIdTag, KeyTagId}

NamePets == <<"p","e","t","s">>
Segments == { <<NamePets, FALSE>>, <<NameId, TRUE>>, <<NameTag, TRUE>> }
MethodPaths == UNION { [1..n -> Segments] : n \in 0..MaxSegs }

ParsedVerbTokens == {TokGET, TokPOST, TokPUT, TokDELETE, TokPATCH}
NameGetPet == <<"G","e","t","P","e","t">>

\* a MethodItem as impl Parse for MethodItem builds it
MethodItem(verb_token, path) ==
    [method_ty |-> MethodType_parse(verb_token).val, path |-> path,
     struct_vis |-> "pub", struct_name |-> NameGetPet]

ParamOperations ==
    UNION { { Operation(ps, <<>>) : ps \in [1..n -> ParamPool] } : n \in 0..MaxParams }

BodyOperations ==
    { Operation(<<ParamId>>, <<b>>) : b \in RequestBodies \cup {BodyRef, BodyRefZip} }

BodyPaths == { << <<NamePets, FALSE>>, <<NameId, TRUE>> >>, << <<NamePets, FALSE>> >> }

(***************************************************************************)
(* Declaration trees and documents for Compiler::compile                   *)
(***************************************************************************)
MaxItems == 2   \* items of the innermost module of a declaration
MaxComps == 2   \* entries of components/schemas

NameApi == <<"a","p","i">>

\* the operations of the documents compile is run on
OpGetPet ==
    Operation(<<ParamId, ParamTagQuery>>, <<>>)
OpListPets ==
    Operation(<<>>,
        <<[content |-> [k \in {MtApplication \o <<"/">> \o MtJson} |->
              [schema |-> <<Schema(<<NameObj>>, <<"object">>,
                                   << <<NameName, Ref(NamePet)>> >>, {NameName}, <<>>, <<>>)>>]]]>>)

RoutePaths ==
    [k \in {KeyPets, KeyPetsId} |->
        IF k = KeyPets THEN PathItem(<<OpListPets>>, <<>>)
        ELSE PathItem(<<OpGetPet>>, <<Operation(<<>>, <<>>)>>)]

DeclGetPet ==
    ItemMethod(MethodItem(TokGET, << <<NamePets, FALSE>>, <<NameId, TRUE>> >>))
DeclListPets == ItemMethod(MethodItem(TokGET, << <<NamePets, FALSE>> >>))
DeclDelPet ==
    ItemMethod(MethodItem(TokDELETE, << <<NamePets, FALSE>>, <<NameId, TRUE>> >>))
DeclMethods == {DeclGetPet, DeclListPets, DeclDelPet}

DeclModule(body) == ItemModule(ModuleItem("pub", NameApi, body))

\* a module nested n deep around a body of methods; each outer module may
\* hold one method before or after the module it wraps
RECURSIVE ModuleChains(_)
ModuleChains(n) ==
    IF n = 1
    THEN { DeclModule(body) : body \in UNION { [1..k -> DeclMethods] : k \in 0..MaxItems } }
    ELSE { DeclModule(body) :
             body \in UNION { { <<inner>>, <<DeclGetPet, inner>>, <<inner, DeclListPets>> } :
                                inner \in ModuleChains(n - 1) } }

TopItems == DeclMethods \cup UNION { ModuleChains(n) : n \in 1..MaxDepth }

Roots ==
    {<<>>} \cup { <<a>> : a \in TopItems }
           \cup { <<a, b>> : a \in TopItems, b \in DeclMethods }

SmallRoots ==
    { <<>>, <<DeclGetPet>>, <<DeclModule(<<DeclListPets>>), DeclGetPet>> }

\* component names in the key order of the BTreeMap that holds them
CompNames == <<NameNum, NameObj, NamePet, NameMyT>>

ComponentSchemas ==
    { Prim(<<>>, "boolean"),
      Prim(<<NameNum>>, "integer"),
      Schema(<<>>, <<"object">>,
             << <<NameId, Prim(<<NameGetPet>>, "integer")>>, <<NameName, Ref(NamePet)>> >>,
             {NameId}, <<>>, <<>>),
      Schema(<<>>, <<"object">>,
             << <<NameId, Prim(<<NameApi>>, "string")>>, <<NameName, Prim(<<NameApi>>, "string")>> >>,
             {}, <<>>, <<>>),
      Schema(<<>>, <<"array">>, <<>>, {}, <<Prim(<<>>, "string")>>, <<>>),
      Schema(<<>>, <<>>, <<>>, {}, <<>>, <<Prim(<<>>, "string"), Ref(NamePet)>>),
      Schema(<<>>, <<"array">>, <<>>, {}, <<Schema(<<>>, <<"object">>, <<>>, {}, <<>>, <<>>)>>, <<>>),
      Ref(NamePet) }

\* components/schemas maps of at most n entries
ComponentMaps(n) ==
    UNION { { [i \in 1..k |-> <<CompNames[idx[i]], ch[i]>>] :
                idx \in { s \in [1..k -> 1..Len(CompNames)] :
                            \A i \in 1..(k - 1) : s[i] < s[i + 1] },
                ch \in [1..k -> ComponentSchemas] } : k \in 0..n }

TypicalComponents ==
    << <<NamePet, Prim(<<>>, "boolean")>> >>

\* operations with several faults: the parameter id is a query parameter, the
\* parameter name has no schema and the request body has two media types
OpFaulty ==
    Operation(<<ParamIdQuery, ParamNoSchema>>,
        <<[content |-> [k \in {MtApplication \o <<"/">> \o MtJson,
                               MtText \o <<"/">> \o MtJson} |->
              [schema |-> <<Prim(<<>>, "string")>>]]]>>)
OpBodyFaulty == Operation(<<ParamId>>, OpFaulty.request_body)

FaultyPaths ==
    [k \in DOMAIN RoutePaths \cup {KeyId, KeyIdTag, KeyTagId, <<"/">> \o NameZip} |->
        IF k \in DOMAIN RoutePaths THEN RoutePaths[k]
        ELSE PathItem(<<OpFaulty>>, <<OpBodyFaulty>>)]

\* declared methods that fail at different steps, and two that compile
FaultyMethods ==
    { ItemMethod(MethodItem(TokGET, << <<NameTag, TRUE>>, <<NameId, TRUE>> >>)),
      ItemMethod(MethodItem(TokGET, << <<NameId, TRUE>>, <<NameTag, TRUE>> >>)),
      ItemMethod(MethodItem(TokGET, << <<NameZip, FALSE>> >>)),
      ItemMethod(MethodItem(TokDELETE, << <<NameZip, FALSE>> >>)),
      ItemMethod(MethodItem(TokPOST, << <<NameZip, FALSE>> >>)),
      ItemMethod(MethodItem(TokGET, << <<NameTag, FALSE>> >>)),
      DeclGetPet, DeclListPets }

FaultyRoots ==
    { <<a, b>> : a \in FaultyMethods, b \in FaultyMethods } \cup
    { <<DeclModule(<<a, b>>), c>> : a \in FaultyMethods, b \in FaultyMethods,
                                    c \in FaultyMethods }

\* components of which the second and the third fail, each in its own way
FaultyComponents ==
    << <<NameNum, Prim(<<>>, "boolean")>>,
       <<NameObj, Schema(<<>>, <<"array">>, <<>>, {},
                         <<Schema(<<>>, <<"object">>, <<>>, {}, <<>>, <<>>)>>, <<>>)>>,
       <<NamePet, Schema(<<>>, <<>>, <<>>, {}, <<>>, <<>>)>> >>

(***************************************************************************)
(* Spec: Compiler::compile, one step per statement of its body             *)
(***************************************************************************)
Init ==
    /\ \/ \E c \in {<<>>} \cup { <<Components(m)>> : m \in ComponentMaps(MaxComps) },
              r \in SmallRoots :
             /\ spec = [paths |-> RoutePaths, components |-> c]
             /\ parser = [spec_path |-> "api.yaml", items |-> r]
       \/ \E c \in { <<Components(TypicalComponents)>>, <<Components(<<>>)>> },
              r \in Roots :
             /\ spec = [paths |-> RoutePaths, components |-> c]
             /\ parser = [spec_path |-> "api.yaml", items |-> r]
       \/ \E c \in { <<Components(TypicalComponents)>>, <<Components(FaultyComponents)>> },
              r \in FaultyRoots :
             /\ spec = [paths |-> FaultyPaths, components |-> c]
             /\ parser = [spec_path |-> "api.yaml", items |-> r]
    /\ pc = "schemas"
    /\ items = <<>>
    /\ next_item = 1
    /\ call = <<>>
    /\ ret = Idle

\* items.push(Module(this.compile_schemas_from_spec()?))
CompileSchemasFromSpec ==
    /\ pc = "schemas"
    /\ LET r == compile_schemas_from_spec(spec)
       IN  IF r.kind = "ok"
           THEN /\ items' = Append(items, ItemModule(r.val))
                /\ pc' = "items"
                /\ ret' = ret
           ELSE /\ items' = <<>>
                /\ pc' = "done"
                /\ ret' = [r EXCEPT !.items = <<>>]
    /\ UNCHANGED <<spec, parser, next_item, call>>

\* one turn of the loop over parser.items
CompileItem ==
    /\ pc = "items"
    /\ next_item <= Len(parser.items)
    /\ LET r == compile_item(parser.items[next_item], spec, <<>>, 0)
       IN  IF r.kind = "ok"
           THEN /\ items' = Append(items, r.val) \o SchemaItems(r.items)
                /\ next_item' = next_item + 1
                /\ pc' = "items"
                /\ ret' = ret
           ELSE /\ items' = <<>>
                /\ next_item' = next_item
                /\ pc' = "done"
                /\ ret' = [r EXCEPT !.items = <<>>]
    /\ UNCHANGED <<spec, parser, call>>

\* Ok(codegen::Root { items })
ReturnRoot ==
    /\ pc = "items"
    /\ next_item > Len(parser.items)
    /\ ret' = Ok([items |-> items], <<>>)
    /\ pc' = "done"
    /\ UNCHANGED <<spec, parser, items, next_item, call>>

Next == CompileSchemasFromSpec \/ CompileItem \/ ReturnRoot

Spec == Init /\ [][Next]_vars

(***************************************************************************)
(* SpecSchema: one call of compile_schema on an empty sink                 *)
(***************************************************************************)
InitSchema ==
    /\ spec = <<>>
    /\ parser = <<>>
    /\ items = <<>>
    /\ next_item = 0
    /\ pc = "call"
    /\ \E title \in SuppliedTitles, depth \in 0..MaxDepth :
          \/ \E s \in LeafSchemas \cup Arrays(LeafSchemas) :
                call = [schema_ref |-> s, title |-> title, depth |-> depth]
          \/ \E t \in TitleOptions, ps \in PropertyMaps(MaxProps, PropLeaves),
                 rq \in RequiredSets :
                call = [schema_ref |-> Schema(t, <<"object">>, ps, rq, <<>>, <<>>),
                        title |-> title, depth |-> depth]
          \/ \E s \in OneOfs(MaxAlts, LeafSchemas) :
                call = [schema_ref |-> s, title |-> title, depth |-> depth]
          \/ \E t \in TitleOptions, n \in NarrowSchemas :
                \E s \in Level2Schemas(t, n) :
                   call = [schema_ref |-> s, title |-> title, depth |-> depth]
    /\ ret = Idle

CompileSchema ==
    /\ pc = "call"
    /\ ret' = compile_schema(call.schema_ref, call.title, call.depth, <<>>)
    /\ pc' = "returned"
    /\ UNCHANGED <<spec, parser, items, next_item, call>>

NextSchema == CompileSchema

SpecSchema == InitSchema /\ [][NextSchema]_vars

(***************************************************************************)
(* SpecMethod: one call of compile_method on an empty sink                 *)
(***************************************************************************)
InitMethod ==
    /\ parser = <<>>
    /\ items = <<>>
    /\ next_item = 0
    /\ pc = "call"
    /\ \/ \E tok \in ParsedVerbTokens, path \in MethodPaths, keys \in {AllKeys, {KeyPets}} :
             /\ spec = Doc(keys, Operation(<<ParamId, ParamTag>>, <<>>), <<Components(<<>>)>>)
             /\ call = [method |-> MethodItem(tok, path), depth |-> 0]
       \/ \E path \in MethodPaths, d \in 0..MaxDepth, op \in ParamOperations :
             /\ spec = Doc({to_oapi_path(path)}, op, <<Components(<<>>)>>)
             /\ call = [method |-> MethodItem(TokGET, path), depth |-> d]
       \/ \E path \in BodyPaths, d \in 0..MaxDepth, op \in BodyOperations :
             /\ spec = Doc({to_oapi_path(path)}, op, <<Components(<<>>)>>)
             /\ call = [method |-> MethodItem(TokGET, path), depth |-> d]
    /\ ret = Idle

CompileMethod ==
    /\ pc = "call"
    /\ ret' = compile_method(call.method, spec, call.depth, <<>>)
    /\ pc' = "returned"
    /\ UNCHANGED <<spec, parser, items, next_item, call>>

NextMethod == CompileMethod

SpecMethod == InitMethod /\ [][NextMethod]_vars

(***************************************************************************)
(* Properties of compile_method (SpecMethod)                               *)
(***************************************************************************)
MethodReturned == pc = "returned" /\ "method" \in DOMAIN call

DeclaredKey == to_oapi_path(call.method.path)
PathFound == DeclaredKey \in DOMAIN spec.paths
SelectedOperation == select_operation(spec.paths[DeclaredKey], call.method.method_ty)
OperationFound == PathFound /\ SelectedOperation # <<>>

\* C2: a declared method whose path template is not in the document, or whose
\* verb has no operation under that template, makes compile_method return an
\* error value located at the declared path (Path not found / Method not found)
\* and no compiled method, also when the declared path has no segments.
C2_UnknownRouteIsLocatedError ==
    MethodReturned /\ ~OperationFound =>
        /\ ret.kind = "err"
        /\ ret.val = <<>>
        /\ ret.err.msg = IF PathFound THEN "Method not found in OpenAPI spec"
                         ELSE "Path not found in OpenAPI spec"
        /\ call.method.path # <<>> => ret.err.span = SpanOf(call.method.path[1][1])

\* the positions of the operation parameters that resolve to a parameter named p
ParamsNamed(operation, p) ==
    { i \in DOMAIN operation.parameters :
        LET r == resolve_parameter(operation.parameters[i], spec)
        IN  r.kind = "ok" /\ r.val.name = p }

AllParamsResolve(operation) ==
    \A i \in DOMAIN operation.parameters :
        resolve_parameter(operation.parameters[i], spec).kind = "ok"

\* the first operation parameter named p
FirstNamed(operation, p) ==
    LET i == CHOOSE i \in ParamsNamed(operation, p) :
                 \A j \in ParamsNamed(operation, p) : i <= j
    IN  resolve_parameter(operation.parameters[i], spec).val

\* the identifiers of the parameter segments of a path, in segment order
ParamSegments(path) ==
    LET idx == { i \in DOMAIN path : path[i][2] }
        RECURSIVE Pick(_)
        Pick(i) == IF i > Len(path) THEN <<>>
                   ELSE (IF i \in idx THEN <<path[i][1]>> ELSE <<>>) \o Pick(i + 1)
    IN  Pick(1)

\* C3: for each declared path parameter p: no operation parameter named p makes
\* compilation fail; the operation parameter named p (the first of that name)
\* having a location other than path makes compilation fail; on success the
\* path parameter names are the parameter segments of the declared path in
\* order and the type list matches them one to one, each the compiled type of
\* the parameter of that name.
C3_PathParamsResolved ==
    MethodReturned /\ OperationFound =>
        LET operation == SelectedOperation[1]
            declared == ParamSegments(call.method.path)
        IN  /\ (\E k \in DOMAIN declared :
                   \/ ParamsNamed(operation, declared[k]) = {}
                   \/ FirstNamed(operation, declared[k]).location # "path")
               => /\ ret.kind # "ok"
                  /\ AllParamsResolve(operation) =>
                        ret.kind = "err" /\ ret.err.span \in {SpanOf(declared[k]) : k \in DOMAIN declared}
            /\ ret.kind = "ok" =>
                  /\ ret.val.path_param_names = declared
                  /\ Len(ret.val.path_param_types) = Len(declared)
                  /\ \A k \in DOMAIN declared :
                        /\ ParamsNamed(operation, declared[k]) # {}
                        /\ FirstNamed(operation, declared[k]).location = "path"
                        /\ ret.val.path_param_types[k] =
                             compile_param(FirstNamed(operation, declared[k]),
                                           call.depth, <<>>).val

\* C3 witness: a method with two different path parameters compiled
C3_Witness ==
    /\ MethodReturned
    /\ ret.kind = "ok"
    /\ Len(ret.val.path_param_types) = 2
    /\ ret.val.path_param_names[1] # ret.val.path_param_names[2]
    /\ ret.val.path_param_types[1] # ret.val.path_param_types[2]

\* the request body of the selected operation, resolved
HasResolvedBody ==
    /\ OperationFound
    /\ SelectedOperation[1].request_body # <<>>
    /\ resolve_request_body(SelectedOperation[1].request_body[1], spec).kind = "ok"
ResolvedContent ==
    resolve_request_body(SelectedOperation[1].request_body[1], spec).val.content

\* the steps of compile_method before the request body succeed
ParamStepsSucceed ==
    LET operation == SelectedOperation[1]
        pp == compile_path_params(path_param_idents(call.method.path), operation,
                                  spec, call.depth, <<>>, <<>>)
    IN  /\ pp.kind = "ok"
        /\ compile_query_params(operation.parameters, spec, call.depth,
                                pp.items, <<>>, <<>>).kind = "ok"

\* C4: a request body whose content mapping has zero or at least two entries
\* makes compile_method fail with the body error whatever the media types are,
\* and a compiled method has an extractor only if the content mapping has
\* exactly one entry.
C4_ExactlyOneMediaType ==
    MethodReturned =>
        /\ (HasResolvedBody /\ Cardinality(DOMAIN ResolvedContent) # 1) =>
              /\ ret.kind # "ok"
              /\ ParamStepsSucceed =>
                    /\ ret.kind = "err"
                    /\ ret.err = [span |-> CallSite,
                                  msg |-> "Exactly one media type is supported"]
        /\ (ret.kind = "ok" /\ ret.val.extractor # <<>>) =>
              HasResolvedBody /\ Cardinality(DOMAIN ResolvedContent) = 1

\* C4 witness: a body of two media types was rejected
C4_Witness ==
    /\ MethodReturned
    /\ HasResolvedBody
    /\ Cardinality(DOMAIN ResolvedContent) >= 2
    /\ ret.kind = "err"
    /\ ret.err.msg = "Exactly one media type is supported"

SingleEntry == HasResolvedBody /\ Cardinality(DOMAIN ResolvedContent) = 1
TheMediaTypeName == CHOOSE k \in DOMAIN ResolvedContent : TRUE
TheMediaType == ResolvedContent[TheMediaTypeName]

MtSlash(a, b) == a \o <<"/">> \o b
\* the supertype of a media type name: what precedes its first slash
Supertype(m) ==
    LET i == IF \E j \in DOMAIN m : m[j] = "/"
             THEN CHOOSE j \in DOMAIN m : m[j] = "/" /\ \A k \in 1..(j - 1) : m[k] # "/"
             ELSE Len(m) + 1
    IN  SubSeq(m, 1, i - 1)

\* C5: a single media type entry that carries a schema binds by its name:
\* application/json the Json strategy and error variant with the compiled
\* schema as body type, application/x-www-form-urlencoded Form likewise,
\* multipart/form-data Multipart, a text supertype Text, and every other
\* media type string the raw-bytes strategy and the Bytes error variant.
C5_MediaTypeDispatch ==
    (MethodReturned /\ SingleEntry /\ TheMediaType.schema # <<>> /\ ret.kind = "ok") =>
        LET m == TheMediaTypeName
            ex == ret.val.extractor[1]
            body == compile_schema(TheMediaType.schema[1], <<>>, call.depth, <<>>).val
        IN  /\ ret.val.extractor # <<>>
            /\ CASE m = MtSlash(MtApplication, MtJson) ->
                      /\ ex.extractor_ty = "::axum::extract::Json"
                      /\ ex.rejection_var = "Json"
                      /\ ex.body_ty = body
                 [] m = MtSlash(MtApplication, MtForm) ->
                      /\ ex.extractor_ty = "::axum::extract::Form"
                      /\ ex.rejection_var = "Form"
                      /\ ex.body_ty = body
                 [] m = MtSlash(MtMultipart, MtFormData) ->
                      ex.extractor_ty = "::axum::extract::Multipart"
                 [] m \notin {MtSlash(MtApplication, MtJson), MtSlash(MtApplication, MtForm),
                              MtSlash(MtMultipart, MtFormData)}
                    /\ Supertype(m) = MtText ->
                      ex.extractor_ty = "::axum::extract::Text"
                 [] OTHER ->
                      /\ ex.extractor_ty = "::axum::extract::Bytes"
                      /\ ex.rejection_var = "Bytes"

\* C6: a single content entry multipart/form-data or text/* that carries no
\* schema compiles to an extractor bound to the multipart (text) strategy and
\* adds nothing to the schema sink.
C6_FixedStrategiesNeedNoSchema ==
    (/\ MethodReturned
     /\ SingleEntry
     /\ TheMediaType.schema = <<>>
     /\ ParamStepsSucceed
     /\ \/ TheMediaTypeName = MtSlash(MtMultipart, MtFormData)
        \/ /\ Supertype(TheMediaTypeName) = MtText
           /\ Len(TheMediaTypeName) > Len(MtText) + 1) =>
        /\ ret.kind = "ok"
        /\ ret.val.extractor # <<>>
        /\ ret.val.extractor[1].extractor_ty =
              IF TheMediaTypeName = MtSlash(MtMultipart, MtFormData)
              THEN "::axum::extract::Multipart" ELSE "::axum::extract::Text"
        /\ ret.items = <<>>

(***************************************************************************)
(* Properties of compile_schema (SpecSchema)                               *)
(***************************************************************************)
SchemaReturned == pc = "returned" /\ "schema_ref" \in DOMAIN call

IsObjectSchema(n) ==
    /\ ~IsRef(n)
    /\ n.all_of = <<>> /\ n.any_of = <<>> /\ n.one_of = <<>>
    /\ n.schema_type = <<"object">>

IsOneOfSchema(n) ==
    /\ ~IsRef(n)
    /\ n.all_of = <<>> /\ n.any_of = <<>>
    /\ n.one_of # <<>>

\* the schema nodes directly under a schema node
ChildSchemas(n) ==
    IF IsRef(n) THEN {}
    ELSE {n.properties[i][2] : i \in DOMAIN n.properties}
         \cup {n.items[i] : i \in DOMAIN n.items}
         \cup {n.one_of[i] : i \in DOMAIN n.one_of}

\* the type a schema node compiles to where it is used (its title is its own)
TypeOf(n) == compile_schema(n, <<>>, call.depth, <<>>).val

\* the record declaration expected of an object schema under a title
ExpectedFields(n) ==
    [i \in DOMAIN n.properties |->
        [name |-> n.properties[i][1],
         ty |-> IF n.properties[i][1] \in n.required
                THEN TypeOf(n.properties[i][2])
                ELSE <<IdOption, Lt>> \o TypeOf(n.properties[i][2]) \o <<Gt>>]]

\* C7: an object schema that compiles emits a record with exactly one field
\* per declared property, in property order, whose type is the compiled type
\* of the property unwrapped if and only if the property name is in the
\* required set, and wrapped in Option otherwise.
C7_RequiredIffUnwrapped ==
    (SchemaReturned /\ ret.kind = "ok") =>
        /\ IsObjectSchema(call.schema_ref) =>
              LET item == Last(ret.items)
              IN  /\ item.kind = "struct"
                  /\ <<item.ident>> = (IF call.title # <<>> THEN call.title
                                       ELSE call.schema_ref.title)
                  /\ item.members = ExpectedFields(call.schema_ref)
        /\ \A n \in ChildSchemas(call.schema_ref) :
              IsObjectSchema(n) =>
                  \E i \in DOMAIN ret.items :
                      /\ ret.items[i].kind = "struct"
                      /\ <<ret.items[i].ident>> = n.title
                      /\ ret.items[i].members = ExpectedFields(n)

\* C7 witness: an object with a required and a non-required property compiled
C7_Witness ==
    /\ SchemaReturned
    /\ ret.kind = "ok"
    /\ IsObjectSchema(call.schema_ref)
    /\ Len(call.schema_ref.properties) = 2
    /\ call.schema_ref.properties[1][1] \in call.schema_ref.required
    /\ call.schema_ref.properties[2][1] \notin call.schema_ref.required
    /\ Last(ret.items).members[1].ty = TypeOf(call.schema_ref.properties[1][2])
    /\ Last(ret.items).members[2].ty # TypeOf(call.schema_ref.properties[2][2])

\* the sink after compiling the first k alternatives of a oneOf in order
RECURSIVE SinkAfterAlternatives(_, _)
SinkAfterAlternatives(alts, k) ==
    IF k = 0 THEN <<>>
    ELSE compile_schema(alts[k], <<>>, call.depth, SinkAfterAlternatives(alts, k - 1)).items

\* the tag expected for an alternative: the upper camel case form of the last
\* path segment of the name of its compiled type
ExpectedTag(alt) ==
    IF IsRef(alt) THEN to_case_UpperCamel(Last(Split(alt.ref_path, "/")))
    ELSE IF alt.title # <<>> THEN to_case_UpperCamel(alt.title[1])
    ELSE IF alt.schema_type = <<"string">> THEN IdString
    ELSE to_case_UpperCamel(Last(TypeOf(alt)))

\* C8: a titled oneOf schema that compiles emits, after the declarations of its
\* alternatives, exactly one enum named by the title, with one variant per
\* alternative in document order; variant i wraps the compiled type of
\* alternative i and is tagged with the upper camel case form of the last path
\* segment of the name of that type.
C8_OneOfVariants ==
    (SchemaReturned /\ ret.kind = "ok" /\ IsOneOfSchema(call.schema_ref)) =>
        LET alts == call.schema_ref.one_of
            item == Last(ret.items)
        IN  /\ ret.items = Append(SinkAfterAlternatives(alts, Len(alts)), item)
            /\ item.kind = "enum"
            /\ <<item.ident>> = (IF call.title # <<>> THEN call.title
                                 ELSE call.schema_ref.title)
            /\ ret.val = <<item.ident>>
            /\ Len(item.members) = Len(alts)
            /\ \A i \in DOMAIN alts :
                  /\ item.members[i].ty = TypeOf(alts[i])
                  /\ item.members[i].name = to_case_UpperCamel(Last(TypeOf(alts[i])))
                  /\ item.members[i].name = ExpectedTag(alts[i])

\* C8 witness: a oneOf of a reference below the root and a titled primitive
\* whose title is not in upper camel case compiled to two variants
C8_Witness ==
    /\ SchemaReturned
    /\ ret.kind = "ok"
    /\ IsOneOfSchema(call.schema_ref)
    /\ call.depth > 0
    /\ Len(call.schema_ref.one_of) = 2
    /\ IsRef(call.schema_ref.one_of[1])
    /\ ~IsRef(call.schema_ref.one_of[2])
    /\ call.schema_ref.one_of[2].title = <<NameMyT>>
    /\ Last(ret.items).members[2].name # NameMyT

(***************************************************************************)
(* Properties of Compiler::compile (Spec)                                  *)
(***************************************************************************)
CompileSucceeded == pc = "done" /\ ret.kind = "ok"

ModulesOf(its) == { its[i].item : i \in { j \in DOMAIN its : its[j].tag = "Module" } }

\* the item lists of a scope and of every module nested in it
RECURSIVE Scopes(_)
Scopes(its) == {its} \cup UNION { Scopes(m.items) : m \in ModulesOf(its) }

NoDuplicateDeclarations(its) ==
    \A i, j \in DOMAIN its :
        (/\ its[i].tag = "Schema"
         /\ its[j].tag = "Schema"
         /\ its[i].item.ident = its[j].item.ident) => i = j

\* C1: when compile succeeds, no scope of the compiled tree (the root, the
\* schemas module, a declared module) holds two schema declarations of the
\* same name.
C1_DeclarationsUniquePerScope ==
    CompileSucceeded => \A sc \in Scopes(ret.val.items) : NoDuplicateDeclarations(sc)

\* the types that occur in the items of a scope
TypesOfItem(it) ==
    CASE it.tag = "Method" ->
             Range(it.item.path_param_types) \cup Range(it.item.query_param_types)
             \cup { it.item.extractor[i].body_ty : i \in DOMAIN it.item.extractor }
      [] it.tag = "Schema" ->
             { it.item.members[i].ty : i \in DOMAIN it.item.members }
             \cup (IF it.item.kind = "type" THEN {it.item.ty} ELSE {})
      [] OTHER -> {}

TypesOfScope(its) == UNION { TypesOfItem(its[i]) : i \in DOMAIN its }

\* the number of super:: hops that end just before position p of a type
RECURSIVE HopsBefore(_, _)
HopsBefore(ty, p) ==
    IF p > 2 /\ ty[p - 2] = IdSuper /\ ty[p - 1] = ColonColon
    THEN 1 + HopsBefore(ty, p - 2) ELSE 0

\* every path of a type that names the schemas module reaches it by k hops
PathsHaveHops(ty, k) ==
    \A p \in DOMAIN ty :
        ty[p] = IdSchemas =>
            /\ HopsBefore(ty, p) = k
            /\ p + 2 <= Len(ty)
            /\ ty[p + 1] = ColonColon

\* k parent hops, then schemas::<last component of the reference path>
HopPath(ref_path, k) ==
    [i \in 1..(2 * k) |-> IF i % 2 = 1 THEN IdSuper ELSE ColonColon]
    \o <<IdSchemas, ColonColon, Last(Split(ref_path, "/"))>>

Contains(ty, sub) ==
    \E p \in 0..(Len(ty) - Len(sub)) : SubSeq(ty, p + 1, p + Len(sub)) = sub

\* the reference paths that occur in a schema node
RECURSIVE RefsOf(_)
RefsOf(n) ==
    IF IsRef(n) THEN {n.ref_path} ELSE UNION { RefsOf(c) : c \in ChildSchemas(n) }

\* the reference paths in the schemas a compiled method was compiled from: its
\* path and query parameters, and its request body when the body is typed
RefsOfMethod(method, compiled) ==
    LET operation == select_operation(spec.paths[to_oapi_path(method.path)],
                                      method.method_ty)[1]
        params == { resolve_parameter(operation.parameters[i], spec).val :
                      i \in DOMAIN operation.parameters }
        used == { q \in params :
                    \/ q.location = "query"
                    \/ q.location = "path" /\ q.name \in Range(compiled.path_param_names) }
        typed == compiled.extractor # <<>>
                 /\ compiled.extractor[1].rejection_var \in {"Json", "Form"}
        body == resolve_request_body(operation.request_body[1], spec).val.content
    IN  UNION { RefsOf(q.schema[1]) : q \in used }
        \cup (IF typed THEN UNION { RefsOf(body[m].schema[1]) : m \in DOMAIN body }
              ELSE {})

\* the sink after the methods declared directly in a scope compiled at depth k
RECURSIVE GeneratedFor(_, _, _)
GeneratedFor(decls, k, sink) ==
    IF decls = <<>> THEN sink
    ELSE GeneratedFor(Tail(decls), k,
             IF Head(decls).tag = "Method"
             THEN compile_method(Head(decls).item, spec, k, sink).items
             ELSE sink)

IsSchemaItem(it) == it.tag = "Schema"
IsDeclaredItem(it) == it.tag # "Schema"

\* a declared scope nested in k modules against the scope compiled from it
RECURSIVE ScopeAtDepth(_, _, _)
ScopeAtDepth(decls, compiled, k) ==
    LET outs == SelectSeq(compiled, IsDeclaredItem)
    IN  /\ Len(outs) = Len(decls)
        /\ \A ty \in TypesOfScope(compiled) : PathsHaveHops(ty, k)
        /\ SelectSeq(compiled, IsSchemaItem) = SchemaItems(GeneratedFor(decls, k, <<>>))
        /\ \A i \in DOMAIN decls :
              IF decls[i].tag = "Method"
              THEN /\ outs[i].tag = "Method"
                   /\ \A r \in RefsOfMethod(decls[i].item, outs[i].item) :
                         \E ty \in TypesOfScope(compiled) : Contains(ty, HopPath(r, k))
              ELSE /\ outs[i].tag = "Module"
                   /\ ScopeAtDepth(decls[i].item.items, outs[i].item.items, k + 1)

\* the references nested in the component schemas of the document
RefsInComponents ==
    UNION { UNION { RefsOf(c) : c \in ChildSchemas(spec.components[1].schemas[i][2]) } :
              i \in DOMAIN spec.components[1].schemas }

\* C9: when compile succeeds, a method declared inside k nested modules has
\* every component reference of its parameters and request body compiled to k
\* parent hops followed by schemas::<last component of the reference path>,
\* the schema declarations generated for it are items of the scope it is
\* declared in, and the references inside the component schemas are compiled
\* to one parent hop.
C9_ReferenceHopsMatchDepth ==
    CompileSucceeded =>
        /\ ScopeAtDepth(parser.items, Tail(ret.val.items), 0)
        /\ \A ty \in TypesOfScope(ret.val.items[1].item.items) : PathsHaveHops(ty, 1)
        /\ \A r \in RefsInComponents :
              \E ty \in TypesOfScope(ret.val.items[1].item.items) : Contains(ty, HopPath(r, 1))

\* C9 witness: a method nested in two modules was compiled, and a declaration
\* generated for it refers to the component Pet by two parent hops
C9_Witness ==
    /\ CompileSucceeded
    /\ \E outer \in ModulesOf(Tail(ret.val.items)) :
          \E inner \in ModulesOf(outer.items) :
             /\ \E i \in DOMAIN inner.items : inner.items[i].tag = "Method"
             /\ \E i \in DOMAIN inner.items :
                   /\ inner.items[i].tag = "Schema"
                   /\ \E ty \in TypesOfItem(inner.items[i]) :
                         ty = <<IdSuper, ColonColon, IdSuper, ColonColon,
                                IdSchemas, ColonColon, NamePet>>

IsSchemasModule(it) ==
    it.tag = "Module" /\ it.item.vis = "pub" /\ it.item.name = IdSchemas

\* C10: the schemas module is the only compiled item when the first declared
\* item is about to be processed; when compile succeeds the first item of the
\* root is the public module schemas, and it holds a type declaration named N
\* for every entry N of components/schemas, whatever the kind of the entry.
C10_SchemasModuleHoldsEveryComponent ==
    /\ (pc = "items" /\ next_item = 1) =>
          (Len(items) = 1 /\ IsSchemasModule(items[1]))
    /\ CompileSucceeded =>
          /\ ret.val.items # <<>>
          /\ IsSchemasModule(ret.val.items[1])
          /\ \A i \in DOMAIN spec.components[1].schemas :
                \E j \in DOMAIN ret.val.items[1].item.items :
                    /\ ret.val.items[1].item.items[j].tag = "Schema"
                    /\ ret.val.items[1].item.items[j].item.ident =
                          spec.components[1].schemas[i][1]

\* C11: Compiler::compile ends either with a compiled root or with one
\* structured error value that carries a location and a message; it never
\* ends with a panic, whatever the document and the declaration tree are.
C11_CompileNeverEndsAbnormally ==
    pc = "done" =>
        \/ ret.kind = "ok" /\ "items" \in DOMAIN ret.val
        \/ ret.kind = "err" /\ ret.err.msg # "" /\ ret.val = <<>>

(***************************************************************************)
(* codegen: the record type and the extraction code emitted for a method   *)
(***************************************************************************)
\* the variants of axum_open_api::Rejection
Rejection == {"Query", "Path", "Json", "Form", "String", "Bytes", "Other"}

\* the repetition #(pub #names: #types,)* of quote
Fields(names, types) ==
    [i \in 1..(IF Len(names) <= Len(types) THEN Len(names) ELSE Len(types)) |->
        [name |-> names[i], ty |-> types[i]]]

\* body_field: pub body: #body_ty, only if a body is extracted
body_field(extractor) ==
    IF extractor = <<>> THEN <<>>
    ELSE <<[name |-> NameBody, ty |-> extractor[1].body_ty]>>

\* the fields of the struct emitted by MethodItem::to_tokens, in order
struct_fields(m) ==
    Fields(m.path_param_names, m.path_param_types)
        \o Fields(m.query_param_names, m.query_param_types)
        \o body_field(m.extractor)

\* one let .. = match req.extract().await statement: the part of the request
\* it reads, the identifiers it binds and the variant it returns on Err(e)
LetExtract(part, binds, rejection_var) ==
    [part |-> part, binds |-> binds, rejection_var |-> rejection_var]

\* Extractor::to_tokens: the statement that extracts the body
Extractor_to_tokens(extractor) ==
    IF extractor = <<>> THEN <<>>
    ELSE <<LetExtract("Body", <<NameBody>>, extractor[1].rejection_var)>>

\* the statements of from_request with the query parameters extracted first
from_request_query_first(m) ==
    <<LetExtract("Query", m.query_param_names, "Query"),
      LetExtract("Path", m.path_param_names, "Path")>>
        \o Extractor_to_tokens(m.extractor)

\* the let statements of the emitted from_request / from_request_parts, in
\* program order
from_request(m) ==
    <<LetExtract("Path", m.path_param_names, "Path"),
      LetExtract("Query", m.query_param_names, "Query")>>
        \o Extractor_to_tokens(m.extractor)

\* the identifiers of Ok(Self { .. }), in order
self_idents(m) ==
    m.path_param_names \o m.query_param_names
        \o (IF m.extractor = <<>> THEN <<>> ELSE <<NameBody>>)

\* the value a let statement binds to an identifier on Ok
Extracted(part, ident) == [from |-> part, ident |-> ident]

\* the value of the innermost binding of an identifier
RECURSIVE LocalValue(_, _)
LocalValue(locals, ident) ==
    LET b == locals[Len(locals)]
    IN  IF b.ident = ident THEN b ELSE LocalValue(SubSeq(locals, 1, Len(locals) - 1), ident)

\* rustc accepts the emitted items: the fields of the struct have different
\* names and the variant of the failure branch is a variant of Rejection
Compiles(m) ==
    /\ \A i, j \in DOMAIN struct_fields(m) :
          struct_fields(m)[i].name = struct_fields(m)[j].name => i = j
    /\ m.extractor # <<>> => m.extractor[1].rejection_var \in Rejection

(***************************************************************************)
(* SpecExtract: one run of the from_request emitted for a compiled method  *)
(***************************************************************************)
\* what each part of a request gives to the extractor that reads it
Requests == [{"Path", "Query", "Body"} -> {"Ok", "Err"}]

InitExtract ==
    /\ parser = <<>>
    /\ items = <<>>
    /\ next_item = 1
    /\ pc = "extract"
    /\ ret = Idle
    /\ \E req \in Requests :
          \/ \E path \in MethodPaths, op \in ParamOperations :
                LET r == compile_method(MethodItem(TokGET, path),
                             Doc({to_oapi_path(path)}, op, <<Components(<<>>)>>), 0, <<>>)
                IN  /\ r.kind = "ok"
                    /\ Compiles(r.val)
                    /\ spec = from_request(r.val)
                    /\ call = [method |-> r.val, req |-> req]
          \/ \E path \in BodyPaths, op \in BodyOperations :
                LET r == compile_method(MethodItem(TokGET, path),
                             Doc({to_oapi_path(path)}, op, <<Components(<<>>)>>), 0, <<>>)
                IN  /\ r.kind = "ok"
                    /\ Compiles(r.val)
                    /\ spec = from_request(r.val)
                    /\ call = [method |-> r.val, req |-> req]

\* a let statement whose extractor returns Ok: its identifiers are bound
ExtractOk ==
    /\ pc = "extract"
    /\ next_item <= Len(spec)
    /\ call.req[spec[next_item].part] = "Ok"
    /\ items' = items \o [i \in DOMAIN spec[next_item].binds |->
                             Extracted(spec[next_item].part, spec[next_item].binds[i])]
    /\ next_item' = next_item + 1
    /\ UNCHANGED <<spec, parser, pc, call, ret>>

\* a let statement whose extractor returns Err(e): return Err(Rejection::V(e))
ExtractErr ==
    /\ pc = "extract"
    /\ next_item <= Len(spec)
    /\ call.req[spec[next_item].part] = "Err"
    /\ ret' = [kind |-> "err", rejection_var |-> spec[next_item].rejection_var,
               e |-> spec[next_item].part]
    /\ pc' = "returned"
    /\ UNCHANGED <<spec, parser, items, next_item, call>>

\* Ok(Self { .. }) after the last let statement
ReturnSelf ==
    /\ pc = "extract"
    /\ next_item = Len(spec) + 1
    /\ ret' = [kind |-> "ok",
               val |-> [i \in DOMAIN self_idents(call.method) |->
                           LocalValue(items, self_idents(call.method)[i])]]
    /\ pc' = "returned"
    /\ UNCHANGED <<spec, parser, items, next_item, call>>

NextExtract == ExtractOk \/ ExtractErr \/ ReturnSelf

SpecExtract == InitExtract /\ [][NextExtract]_vars

(***************************************************************************)
(* Properties of the emitted code (SpecExtract, SpecMethod)                *)
(***************************************************************************)
ExtractReturned == pc = "returned" /\ "req" \in DOMAIN call

\* the parts of the request in the order the claim gives, the body only if
\* the method has an extractor
OrderedParts ==
    <<"Path", "Query">> \o (IF call.method.extractor = <<>> THEN <<>> ELSE <<"Body">>)

VariantOf(part) ==
    IF part = "Body" THEN call.method.extractor[1].rejection_var ELSE part

\* the parts read by the statements that ran to their end, in the order run
PartsRun == [j \in 1..(next_item - 1) |-> spec[j].part]

\* C12: the emitted extraction reads the path parameters, then the query
\* parameters, then the body if the method has an extractor; the first part
\* whose extractor fails ends the extraction with the error variant of that
\* part (Path, Query, the rejection_var of the extractor), no later part is
\* read, and Ok(Self) is returned only after every part was extracted.
C12_FirstFailureEndsExtraction ==
    ExtractReturned =>
        LET failing == { k \in DOMAIN OrderedParts : call.req[OrderedParts[k]] = "Err" }
        IN  IF failing = {}
            THEN /\ ret.kind = "ok"
                 /\ PartsRun = OrderedParts
                 /\ Len(ret.val) = Len(struct_fields(call.method))
                 /\ \A i \in DOMAIN ret.val :
                       /\ ret.val[i].ident = struct_fields(call.method)[i].name
                       /\ ret.val[i].from =
                            IF i <= Len(call.method.path_param_names) THEN "Path"
                            ELSE IF i <= Len(call.method.path_param_names)
                                          + Len(call.method.query_param_names)
                                 THEN "Query" ELSE "Body"
            ELSE LET k == CHOOSE k \in failing : \A j \in failing : k <= j
                 IN  /\ ret.kind = "err"
                     /\ ret.rejection_var = VariantOf(OrderedParts[k])
                     /\ ret.e = OrderedParts[k]
                     /\ PartsRun = SubSeq(OrderedParts, 1, k - 1)
                     /\ \A i \in DOMAIN items :
                           \E j \in 1..(k - 1) : items[i].from = OrderedParts[j]

\* C12 witness: the query step failed after the path step had bound a
\* parameter, and the body extractor, which would have failed too, never ran
C12_Witness ==
    /\ ExtractReturned
    /\ call.method.extractor # <<>>
    /\ call.req = [p \in {"Path", "Query", "Body"} |-> IF p = "Path" THEN "Ok" ELSE "Err"]
    /\ ret.kind = "err"
    /\ ret.rejection_var = "Query"
    /\ items # <<>>

\* the parameters of an operation that are query parameters, in document order
QueryParams(operation) ==
    SelectSeq([i \in DOMAIN operation.parameters |->
                  resolve_parameter(operation.parameters[i], spec).val],
              LAMBDA p : p.location = "query")

\* the compiled type of the schema of a parameter, not wrapped
SchemaType(p) == compile_schema(p.schema[1], <<>>, call.depth, <<>>).val

\* C13: the struct emitted for a compiled method has, in this order, one field
\* per declared path parameter of the compiled type of its schema, never
\* wrapped in Option whatever its required flag is, one field per query
\* parameter in document order of that type wrapped in Option unless the
\* parameter is required, and a body field of the body type of the extractor
\* if and only if the method has an extractor.
C13_RecordFields ==
    MethodReturned /\ ret.kind = "ok" =>
        LET operation == SelectedOperation[1]
            declared == ParamSegments(call.method.path)
            query == QueryParams(operation)
        IN  struct_fields(ret.val) =
                [k \in DOMAIN declared |->
                    [name |-> declared[k],
                     ty |-> SchemaType(FirstNamed(operation, declared[k]))]]
                \o [k \in DOMAIN query |->
                    [name |-> query[k].name,
                     ty |-> IF query[k].required = <<TRUE>> THEN SchemaType(query[k])
                            ELSE TyOption(SchemaType(query[k]))]]
                \o (IF ret.val.extractor = <<>> THEN <<>>
                    ELSE <<[name |-> NameBody, ty |-> ret.val.extractor[1].body_ty]>>)

(***************************************************************************)
(* SpecPath: to_axum_path and to_oapi_path applied to two declared paths   *)
(***************************************************************************)
\* segments whose names are pieces of one another
PathSegments == { <<n, f>> : n \in {<<"i">>, <<"d">>, NameId}, f \in BOOLEAN }
DeclaredPaths == UNION { [1..n -> PathSegments] : n \in 0..MaxSegs }

InitPath ==
    /\ spec = <<>>
    /\ parser = <<>>
    /\ items = <<>>
    /\ next_item = 0
    /\ pc = "call"
    /\ ret = Idle
    /\ \E p \in DeclaredPaths, q \in DeclaredPaths : call = [paths |-> <<p, q>>]

ConvertPaths ==
    /\ pc = "call"
    /\ ret' = [kind |-> "ok",
               axum |-> [i \in 1..2 |-> to_axum_path(call.paths[i])],
               oapi |-> [i \in 1..2 |-> to_oapi_path(call.paths[i])]]
    /\ pc' = "returned"
    /\ UNCHANGED <<spec, parser, items, next_item, call>>

NextPath == ConvertPaths

SpecPath == InitPath /\ [][NextPath]_vars

PathsConverted == pc = "returned" /\ "paths" \in DOMAIN call

\* C14: two declared paths with the same axum path, or with the same OpenAPI
\* path, have the same segments with the same parameter flags; hence two paths
\* agree in one encoding exactly if they agree in the other, and either
\* encoding can be turned into the other and back without loss.
C14_PathEncodingsInjective ==
    PathsConverted =>
        /\ ret.axum[1] = ret.axum[2] => call.paths[1] = call.paths[2]
        /\ ret.oapi[1] = ret.oapi[2] => call.paths[1] = call.paths[2]
        /\ ret.axum[1] = ret.axum[2] <=> ret.oapi[1] = ret.oapi[2]

\* C14 witness: two paths of the same names that differ in one parameter flag
\* only were converted, and both encodings tell them apart
C14_Witness ==
    /\ PathsConverted
    /\ Len(call.paths[1]) = 2
    /\ Len(call.paths[2]) = 2
    /\ \A i \in 1..2 : call.paths[1][i][1] = call.paths[2][i][1]
    /\ call.paths[1][1] = call.paths[2][1]
    /\ call.paths[1][2][2] # call.paths[2][2][2]
    /\ ret.axum[1] # ret.axum[2]
    /\ ret.oapi[1] # ret.oapi[2]

(***************************************************************************)
(* Title resolution (SpecSchema)                                           *)
(***************************************************************************)
IsArraySchema(n) ==
    /\ ~IsRef(n)
    /\ n.all_of = <<>> /\ n.any_of = <<>> /\ n.one_of = <<>>
    /\ n.schema_type = <<"array">>

IsPrimitiveSchema(n) ==
    /\ ~IsRef(n)
    /\ n.all_of = <<>> /\ n.any_of = <<>> /\ n.one_of = <<>>
    /\ n.schema_type # <<>>
    /\ n.schema_type[1] \in {"string", "number", "integer", "boolean"}

\* the host primitive of a primitive schema
HostPrimitive(n) ==
    CASE n.schema_type[1] = "string" -> <<IdString>>
      [] n.schema_type[1] = "number" -> <<Idf64>>
      [] n.schema_type[1] = "integer" -> <<Idi64>>
      [] n.schema_type[1] = "boolean" -> <<Idbool>>

\* the title the claim resolves: the supplied one, else the one of the node
ResolvedTitle == IF call.title # <<>> THEN call.title ELSE call.schema_ref.title

\* C15: compile_schema names the declaration of a node by the title supplied
\* by the caller, also when the node has a title of its own, and by the title
\* of the node when none is supplied; with neither, an object or oneOf node
\* fails with an error, while a primitive node returns the host primitive and
\* an array node whose item schema compiles returns Vec of the item type, and
\* neither adds a declaration for the node to the sink.
C15_TitleResolution ==
    SchemaReturned /\ ~IsRef(call.schema_ref) =>
        LET n == call.schema_ref
            t == ResolvedTitle
        IN  /\ (IsObjectSchema(n) \/ IsOneOfSchema(n)) /\ t = <<>> =>
                  /\ ret.kind = "err"
                  /\ ret.err.msg = "Anonymous schemas are not supported"
                  /\ ret.items = <<>>
            /\ (IsObjectSchema(n) \/ IsOneOfSchema(n)) /\ t # <<>> /\ ret.kind = "ok" =>
                  /\ ret.val = <<t[1]>>
                  /\ ret.items # <<>>
                  /\ Last(ret.items).ident = t[1]
                  /\ Last(ret.items).kind = IF IsObjectSchema(n) THEN "struct" ELSE "enum"
            /\ IsPrimitiveSchema(n) =>
                  ret = IF t = <<>> THEN Ok(HostPrimitive(n), <<>>)
                        ELSE Ok(<<t[1]>>, <<TypeItem(t[1], HostPrimitive(n))>>)
            /\ IsArraySchema(n) /\ n.items # <<>> =>
                  LET item == compile_schema(n.items[1], <<>>, call.depth, <<>>)
                  IN  item.kind = "ok" =>
                        ret = IF t = <<>>
                              THEN Ok(<<IdVec, Lt>> \o item.val \o <<Gt>>, item.items)
                              ELSE Ok(<<t[1]>>,
                                      Append(item.items,
                                             TypeItem(t[1], <<IdVec, Lt>> \o item.val \o <<Gt>>)))

\* C15 witness: a titled object was compiled under a different supplied title
\* and the record declared carries the supplied title
C15_Witness ==
    /\ SchemaReturned
    /\ IsObjectSchema(call.schema_ref)
    /\ call.title # <<>>
    /\ call.schema_ref.title # <<>>
    /\ call.title # call.schema_ref.title
    /\ ret.kind = "ok"
    /\ Last(ret.items).ident = call.title[1]

(***************************************************************************)
(* Fail-fast order (Spec)                                                  *)
(***************************************************************************)
\* the first outcome of a sequence of step outcomes that is not Ok, if any
FirstFailure(outcomes) ==
    LET bad == { i \in DOMAIN outcomes : outcomes[i].kind # "ok" }
    IN  IF bad = {} THEN <<>>
        ELSE <<outcomes[CHOOSE i \in bad : \A j \in bad : i <= j]>>

\* the steps of one declared method in the order of the claim, each taken on
\* its own: path lookup, verb lookup, one step per declared path parameter in
\* segment order, one per operation parameter in document order, the body
MethodSteps(method, depth) ==
    LET key == to_oapi_path(method.path)
    IN  IF key \notin DOMAIN spec.paths
        THEN <<err_at_path(method.path, "Path not found in OpenAPI spec", <<>>)>>
        ELSE IF select_operation(spec.paths[key], method.method_ty) = <<>>
        THEN <<err_at_path(method.path, "Method not found in OpenAPI spec", <<>>)>>
        ELSE
        LET operation == select_operation(spec.paths[key], method.method_ty)[1]
            declared == ParamSegments(method.path)
            path_steps ==
                [k \in DOMAIN declared |->
                    LET f == find_parameter(operation.parameters, declared[k], spec)
                    IN  IF f.kind # "ok" THEN f
                        ELSE IF f.val.location # "path"
                             THEN Err(SpanOf(declared[k]),
                                      "Path parameter is not in: path in OpenAPI spec", <<>>)
                        ELSE compile_param(f.val, depth, <<>>)]
            query_steps ==
                [i \in DOMAIN operation.parameters |->
                    LET p == resolve_parameter(operation.parameters[i], spec)
                    IN  IF p.kind # "ok" THEN Panic(<<>>)
                        ELSE IF p.val.location # "query" THEN Ok(<<>>, <<>>)
                        ELSE IF ~ValidIdent(p.val.name) THEN Panic(<<>>)
                        ELSE compile_param(p.val, depth, <<>>)]
        IN  path_steps \o query_steps
                \o <<compile_request_body(operation, spec, depth, <<>>)>>

\* the first failure under a declared item, depth-first in declaration order
RECURSIVE ItemFailure(_, _)
ItemFailure(item, depth) ==
    IF item.tag = "Method" THEN FirstFailure(MethodSteps(item.item, depth))
    ELSE FirstFailure(Concat([i \in DOMAIN item.item.items |->
                                 ItemFailure(item.item.items[i], depth + 1)]))

\* the first failure among the component schemas, in key order
ComponentFailure ==
    IF spec.components = <<>> THEN <<compile_schemas_from_spec(spec)>>
    ELSE FirstFailure([i \in DOMAIN spec.components[1].schemas |->
             compile_schema(spec.components[1].schemas[i][2],
                            <<spec.components[1].schemas[i][1]>>, 1, <<>>)])

ItemFailures == [i \in DOMAIN parser.items |-> ItemFailure(parser.items[i], 0)]

\* C16: compilation ends with the outcome of the first step that fails, where
\* the steps are the component schemas first, then the declared items
\* depth-first in declaration order and, inside a method, path lookup, verb
\* lookup, path parameters in segment order, query parameters in document
\* order, request body; no later step runs (the loop over the declared items
\* stays at the item that failed) and no compiled tree is returned, not even
\* a partial one; compilation succeeds only when no step fails.
C16_FailFastInOrder ==
    pc = "done" =>
        LET failures == ComponentFailure \o Concat(ItemFailures)
        IN  IF failures = <<>>
            THEN ret.kind = "ok" /\ next_item = Len(parser.items) + 1
            ELSE /\ ret.kind = failures[1].kind
                 /\ ret.err = failures[1].err
                 /\ ret.val = <<>>
                 /\ ret.items = <<>>
                 /\ items = <<>>
                 /\ next_item = IF ComponentFailure # <<>> THEN 1
                                ELSE CHOOSE i \in DOMAIN ItemFailures :
                                        /\ ItemFailures[i] # <<>>
                                        /\ \A j \in 1..(i - 1) : ItemFailures[j] = <<>>

\* C16 witness: inside a module a method failed at a query parameter though
\* its request body is faulty too, and the item after the module, which fails
\* in another way, was never compiled
C16_Witness ==
    /\ pc = "done"
    /\ ret.kind = "err"
    /\ ret.err.msg = "Query parameter does not have a schema in OpenAPI spec"
    /\ Len(parser.items) = 2
    /\ next_item = 1
    /\ parser.items[1].tag = "Module"
    /\ ItemFailures[2] # <<>>
    /\ ItemFailures[2][1].err.msg = "Path not found in OpenAPI spec"

(***************************************************************************)
(* The layout of a compiled module (Spec)                                  *)
(***************************************************************************)
\* a declared module at depth k against the module compiled from it: the
\* children first, in declaration order and compiled at depth k + 1, then the
\* declarations their compilation generated
RECURSIVE ModuleLayout(_, _, _)
ModuleLayout(decl, compiled, k) ==
    LET n == Len(decl.items)
    IN  /\ compiled.name = decl.name
        /\ compiled.vis = decl.vis
        /\ Len(compiled.items) >= n
        /\ \A i \in 1..n :
              /\ compiled.items[i].tag = decl.items[i].tag
              /\ IF decl.items[i].tag = "Method"
                 THEN compiled.items[i].item =
                          compile_method(decl.items[i].item, spec, k + 1, <<>>).val
                 ELSE ModuleLayout(decl.items[i].item, compiled.items[i].item, k + 1)
        /\ SubSeq(compiled.items, n + 1, Len(compiled.items)) =
              SchemaItems(GeneratedFor(decl.items, k + 1, <<>>))

\* the items of the compiled root that are not schema declarations: the
\* schemas module, then one per declared item
RootChildren == SelectSeq(ret.val.items, IsDeclaredItem)

\* C17: the items of every compiled module are its compiled direct children
\* in declaration order, each compiled one level deeper than the module,
\* followed by all schema declarations generated while compiling them, so no
\* schema declaration precedes a method or a module child; the module keeps
\* the name and the visibility of its declaration.
C17_ModuleLayout ==
    CompileSucceeded =>
        /\ Len(RootChildren) = Len(parser.items) + 1
        /\ \A i \in DOMAIN parser.items :
              /\ RootChildren[i + 1].tag = parser.items[i].tag
              /\ parser.items[i].tag = "Module" =>
                    ModuleLayout(parser.items[i].item, RootChildren[i + 1].item, 0)

\* C17 witness: a compiled module that holds a method, a module with a method
\* of its own, and after both the declaration generated for its method
C17_Witness ==
    /\ CompileSucceeded
    /\ \E i \in DOMAIN parser.items :
          /\ parser.items[i].tag = "Module"
          /\ Len(parser.items[i].item.items) = 2
          /\ LET m == RootChildren[i + 1].item
             IN  /\ Len(m.items) > 2
                 /\ m.items[1].tag = "Method"
                 /\ m.items[2].tag = "Module"
                 /\ m.items[2].item.items # <<>>
                 /\ m.items[3].tag = "Schema"

(***************************************************************************)
(* SpecParse: a method declaration parsed, then compiled                   *)
(***************************************************************************)
\* identifiers in the place of the verb: the keywords of mod kw and others
VerbIdents ==
    ParsedVerbTokens \cup
    { <<"H","E","A","D">>, <<"O","P","T","I","O","N","S">>, <<"T","R","A","C","E">>,
      <<"g","e","t">>, <<"G","E","T","S">>, <<"G","e","t">>, NameGetPet }

\* a path item with an operation under each of the eight verbs; those under
\* head, options and trace have a query parameter without a schema
EveryVerb ==
    [v \in {"get", "post", "put", "delete", "patch", "head", "trace", "options"} |->
        IF v \in {"head", "trace", "options"}
        THEN <<Operation(<<ParamId, ParamTag, ParamNoSchema>>, <<>>)>>
        ELSE <<Operation(<<ParamId, ParamTag>>, <<>>)>>]

InitParse ==
    /\ parser = <<>>
    /\ items = <<>>
    /\ next_item = 0
    /\ pc = "parse"
    /\ ret = Idle
    /\ \E ident \in VerbIdents, path \in MethodPaths :
          /\ call = [verb |-> ident, path |-> path]
          /\ spec = [paths |-> [k \in {to_oapi_path(path)} |-> EveryVerb],
                     components |-> <<Components(<<>>)>>]

\* impl Parse for MethodItem: the verb first, with ?
ParseMethodItem ==
    /\ pc = "parse"
    /\ LET ty == MethodType_parse(call.verb)
       IN  IF ty.kind = "ok"
           THEN /\ parser' = [MethodItem(call.verb, call.path) EXCEPT !.method_ty = ty.val]
                /\ pc' = "parsed"
                /\ ret' = ret
           ELSE /\ parser' = parser
                /\ pc' = "returned"
                /\ ret' = ty
    /\ UNCHANGED <<spec, items, next_item, call>>

\* compile_method on the parsed declaration
CompileParsed ==
    /\ pc = "parsed"
    /\ ret' = compile_method(parser, spec, 0, <<>>)
    /\ pc' = "returned"
    /\ UNCHANGED <<spec, parser, items, next_item, call>>

NextParse == ParseMethodItem \/ CompileParsed

SpecParse == InitParse /\ [][NextParse]_vars

C19_RejectionVariantDefined ==
    MethodReturned /\ ret.kind = "ok" /\ ret.val.extractor # <<>> =>
        \A i \in DOMAIN Extractor_to_tokens(ret.val.extractor) :
            Extractor_to_tokens(ret.val.extractor)[i].rejection_var \in Rejection

====
